---------------------------- MODULE Spec2Model ----------------------------
(***************************************************************************)
(* Model of torch/csrc/jit/passes/quantization.cpp: the passes             *)
(* InsertQuantDequantNodes and InsertObserverNodes and the three stub      *)
(* passes, over an explicit model of the JIT IR graph (blocks, nodes,      *)
(* values, use lists).                                                     *)
(*                                                                         *)
(* Identities: nodes, values and blocks are positive integers, the index   *)
(* of the object in the graph's tables.  Node 0 is the graph's prim::Param *)
(* node, which is in no block; values 1..Len(g.ginputs) are its outputs    *)
(* (the graph inputs).  Block 1 is the graph's top-level block.            *)
(***************************************************************************)
EXTENDS Naturals, Integers, Sequences, FiniteSets, TLC

VARIABLES
    graph,              \* the IR graph being rewritten (record of tables)
    graph0,             \* the graph as it was when the pass was entered
    entry,              \* the entry point that was called, "" before the call
    pc,                 \* position of the running pass
    blocks_to_visit,    \* std::stack<Block*>; top of stack is the last element
    quantInputs,        \* std::vector<std::pair<Value*, Node*>>
    quantOutputs,       \* std::vector<Value*>
    valueLookup,        \* std::unordered_set<Value*>
    values_to_observe,  \* std::vector<Value*>
    observer_for_input, \* std::unordered_set<Node*>
    num_activation_inputs, \* argument of InsertObserverNodes
    insert_node,        \* Node* insert_node of InsertObserverNodes
    idx,                \* loop index of the running for-loop
    outcome,            \* "none", "ok", "not_implemented", "precondition"
    popped,             \* history: blocks popped from blocks_to_visit, in order
    visited,            \* history: nodes the traversal's for-loop has visited
    rewrites,           \* history: quant-dequant pairs inserted, in order
    observers           \* history: observer clones inserted, in order

vars == <<graph, graph0, entry, pc, blocks_to_visit, quantInputs, quantOutputs,
          valueLookup, values_to_observe, observer_for_input,
          num_activation_inputs, insert_node, idx, outcome, popped, visited,
          rewrites, observers>>

-----------------------------------------------------------------------------
(* Bounds of the model.                                                    *)

\* number of nodes of the graph handed to a pass
NumNodes == 3

\* number of outputs of the observer template node handed to InsertObserverNodes
ObserverOutputs == 0

-----------------------------------------------------------------------------
(* The IR: types, tables, and the library operations the passes call.      *)

Tensor == "Tensor"
NonTensor == "int"

\* v->type()->isSubtypeOf(TensorType::get())
isTensor(g, v) == g.type[v] = Tensor

ParamNode == 0
TopBlock == 1

Nodes(g) == 1..Len(g.kind)
Values(g) == 1..Len(g.type)
Blocks(g) == 1..Len(g.nodes)

\* n->kind(); the prim::Param node carries no table entry
kindOf(g, n) == IF n = ParamNode THEN "prim::Param" ELSE g.kind[n]

\* the attribute payload of a node without one
NoAttr == <<"none", 0>>

\* a graph with the given graph inputs and an empty top-level block
EmptyGraph(inputTypes) ==
    [kind    |-> <<>>,      \* node -> operator symbol
     attr    |-> <<>>,      \* node -> constant payload
     inputs  |-> <<>>,      \* node -> sequence of values
     outputs |-> <<>>,      \* node -> sequence of values
     blocks  |-> <<>>,      \* node -> sequence of sub-blocks
     nodes   |-> << <<>> >>,  \* block -> sequence of nodes, in order
     returns |-> << <<>> >>,  \* block -> sequence of output values
     owner   |-> <<ParamNode>>, \* block -> owning node (ParamNode for block 1)
     type    |-> inputTypes,  \* value -> type
     node    |-> [i \in 1..Len(inputTypes) |-> ParamNode], \* value -> producer
     ginputs |-> [i \in 1..Len(inputTypes) |-> i]]

\* index of x in sequence s (x occurs in s)
IndexOf(s, x) == CHOOSE i \in 1..Len(s) : s[i] = x

InsertAt(s, i, x) == SubSeq(s, 1, i - 1) \o <<x>> \o SubSeq(s, i, Len(s))

Range(s) == {s[i] : i \in 1..Len(s)}

\* n->owningBlock(), for a node that is in a block
owningBlock(g, n) == CHOOSE b \in Blocks(g) : n \in Range(g.nodes[b])

inSomeBlock(g, n) == \E b \in Blocks(g) : n \in Range(g.nodes[b])

\* Graph::create(kind): a node with one fresh output of the default (tensor)
\* type, no inputs, in no block.  The new node is Len(g.kind) + 1, its output
\* Len(g.type) + 1.
NewNode(g) == Len(g.kind) + 1
NewValue(g) == Len(g.type) + 1

createNode(g, k, a, outTypes) ==
    [g EXCEPT !.kind = Append(@, k),
              !.attr = Append(@, a),
              !.inputs = Append(@, <<>>),
              !.outputs = Append(@, [i \in 1..Len(outTypes) |-> Len(g.type) + i]),
              !.blocks = Append(@, <<>>),
              !.type = @ \o outTypes,
              !.node = @ \o [i \in 1..Len(outTypes) |-> Len(g.kind) + 1]]

create(g, k) == createNode(g, k, NoAttr, <<Tensor>>)

\* n->insertAfter(anchor)
insertAfter(g, n, anchor) ==
    LET b == owningBlock(g, anchor)
        i == IndexOf(g.nodes[b], anchor)
    IN  [g EXCEPT !.nodes[b] = InsertAt(@, i + 1, n)]

\* n->insertBefore(anchor)
insertBefore(g, n, anchor) ==
    LET b == owningBlock(g, anchor)
        i == IndexOf(g.nodes[b], anchor)
    IN  [g EXCEPT !.nodes[b] = InsertAt(@, i, n)]

\* Graph::insertConstant(val) under WithInsertPoint(p): a prim::Constant node
\* with one non-tensor output, placed immediately before p.  The new node is
\* NewNode(g), its output NewValue(g).
insertConstant(g, a, p) ==
    insertBefore(createNode(g, "prim::Constant", a, <<NonTensor>>), NewNode(g), p)

\* n->addInput(v)
addInput(g, n, v) == [g EXCEPT !.inputs[n] = Append(@, v)]

\* n->addOutput(): a fresh output of the default (tensor) type
addOutput(g, n) ==
    [g EXCEPT !.outputs[n] = Append(@, Len(g.type) + 1),
              !.type = Append(@, Tensor),
              !.node = Append(@, n)]

\* v->setType(t)
setType(g, v, t) == [g EXCEPT !.type[v] = t]

Subst(s, from, to) == [i \in 1..Len(s) |-> IF s[i] = from THEN to ELSE s[i]]

\* n->replaceInputWith(from, to): every input slot of n that holds from
replaceInputWith(g, n, from, to) ==
    [g EXCEPT !.inputs[n] = Subst(@, from, to)]

\* v->replaceAllUsesWith(w): every use of v, in node inputs and in block
\* outputs (the inputs of the blocks' return nodes)
replaceAllUsesWith(g, v, w) ==
    [g EXCEPT !.inputs = [n \in DOMAIN @ |-> Subst(@[n], v, w)],
              !.returns = [b \in DOMAIN @ |-> Subst(@[b], v, w)]]

\* the nodes that have v among their inputs
Consumers(g, v) == {n \in Nodes(g) : v \in Range(g.inputs[n])}

\* v->uses() is non-empty: some node input or block output holds v
hasUses(g, v) ==
    \/ Consumers(g, v) # {}
    \/ \E b \in Blocks(g) : v \in Range(g.returns[b])

-----------------------------------------------------------------------------
(* QuantizerUtils (anonymous namespace of quantization.cpp).               *)

\* the static OperatorSet of checkIfNodeQuantizable
quantnodeLookup == {"aten::conv2d", "aten::relu", "aten::_convolution"}

checkIfNodeQuantizable(g, n) == kindOf(g, n) \in quantnodeLookup

\* qparam is <<scale, zero point>>.  The two constants are inserted before
\* quant (WithInsertPoint ins(quant)), scale first, and appended to quant's
\* inputs in that order.
insertQuantNodeParams(g, quant, qparam) ==
    LET g1 == insertConstant(g, <<"float", qparam[1]>>, quant)
        scale == NewValue(g)
        g2 == insertConstant(g1, <<"int", qparam[2]>>, quant)
        zeropoint == NewValue(g1)
    IN  addInput(addInput(g2, quant, scale), quant, zeropoint)

\* The pair is created, not yet placed in a block: quant is NewNode(g) and
\* dequant is NewNode(g) + 1, each with one tensor output.
createQuantDeQuantNodes(g, v, n) ==
    create(create(g, "aten::quantize_linear"), "aten::dequantize")

QuantOf(g) == NewNode(g)
DequantOf(g) == NewNode(g) + 1

\* addQuantDeQuantNodes taking v's producer out of its block once v is wrapped
addQuantDeQuantNodes_RemovesProducer(g, v) ==
    LET n == g.node[v]
        quant == QuantOf(g)
        dequant == DequantOf(g)
        g1 == createQuantDeQuantNodes(g, v, n)
        g2 == insertAfter(g1, quant, n)
        g3 == insertAfter(g2, dequant, quant)
        g4 == replaceAllUsesWith(g3, v, g3.outputs[dequant][1])
        g5 == addInput(g4, quant, v)
        g6 == insertQuantNodeParams(g5, quant, <<1, 0>>)
        g7 == addInput(g6, dequant, g6.outputs[quant][1])
        b == owningBlock(g7, n)
    IN  [g7 EXCEPT !.nodes[b] = SelectSeq(@, LAMBDA x : x # n)]

\* addQuantDeQuantNodes wiring v into quant before the uses of v are replaced
addQuantDeQuantNodes_WireFirst(g, v) ==
    LET n == g.node[v]
        quant == QuantOf(g)
        dequant == DequantOf(g)
        g1 == createQuantDeQuantNodes(g, v, n)
        g2 == insertAfter(g1, quant, n)
        g3 == insertAfter(g2, dequant, quant)
        g4 == addInput(g3, quant, v)
        g5 == replaceAllUsesWith(g4, v, g4.outputs[dequant][1])
        g6 == insertQuantNodeParams(g5, quant, <<1, 0>>)
    IN  addInput(g6, dequant, g6.outputs[quant][1])

\* Insert Quant-Dequant node pair for quantizable node outputs
addQuantDeQuantNodes(g, v) ==
    LET n == g.node[v]
        quant == QuantOf(g)
        dequant == DequantOf(g)
        g1 == createQuantDeQuantNodes(g, v, n)
        g2 == insertAfter(g1, quant, n)
        g3 == insertAfter(g2, dequant, quant)
        g4 == replaceAllUsesWith(g3, v, g3.outputs[dequant][1])
        g5 == addInput(g4, quant, v)
        g6 == insertQuantNodeParams(g5, quant, <<1, 0>>)
    IN  addInput(g6, dequant, g6.outputs[quant][1])

\* addQuantDeQuantNodesForInput redirecting every use of v instead of n's
addQuantDeQuantNodesForInput_AllUses(g, v, n) ==
    LET quant == QuantOf(g)
        dequant == DequantOf(g)
        g1 == createQuantDeQuantNodes(g, v, n)
        g2 == insertBefore(g1, dequant, n)
        g3 == insertBefore(g2, quant, dequant)
        g4 == replaceAllUsesWith(g3, v, g3.outputs[dequant][1])
        g5 == addInput(g4, quant, v)
        g6 == insertQuantNodeParams(g5, quant, <<1, 0>>)
    IN  addInput(g6, dequant, g6.outputs[quant][1])

\* addQuantDeQuantNodesForInput placing the pair after n instead of before it
addQuantDeQuantNodesForInput_AfterAnchor(g, v, n) ==
    LET quant == QuantOf(g)
        dequant == DequantOf(g)
        g1 == createQuantDeQuantNodes(g, v, n)
        g2 == insertAfter(g1, dequant, n)
        g3 == insertBefore(g2, quant, dequant)
        g4 == replaceInputWith(g3, n, v, g3.outputs[dequant][1])
        g5 == addInput(g4, quant, v)
        g6 == insertQuantNodeParams(g5, quant, <<1, 0>>)
    IN  addInput(g6, dequant, g6.outputs[quant][1])

\* addQuantDeQuantNodesForInput placing quant before n instead of before dequant
addQuantDeQuantNodesForInput_QuantBeforeAnchor(g, v, n) ==
    LET quant == QuantOf(g)
        dequant == DequantOf(g)
        g1 == createQuantDeQuantNodes(g, v, n)
        g2 == insertBefore(g1, dequant, n)
        g3 == insertBefore(g2, quant, n)
        g4 == replaceInputWith(g3, n, v, g3.outputs[dequant][1])
        g5 == addInput(g4, quant, v)
        g6 == insertQuantNodeParams(g5, quant, <<1, 0>>)
    IN  addInput(g6, dequant, g6.outputs[quant][1])

\* Insert Quant-Dequant node pair for specific input to node n
addQuantDeQuantNodesForInput(g, v, n) ==
    LET quant == QuantOf(g)
        dequant == DequantOf(g)
        g1 == createQuantDeQuantNodes(g, v, n)
        g2 == insertBefore(g1, dequant, n)
        g3 == insertBefore(g2, quant, dequant)
        g4 == replaceInputWith(g3, n, v, g3.outputs[dequant][1])
        g5 == addInput(g4, quant, v)
        g6 == insertQuantNodeParams(g5, quant, <<1, 0>>)
    IN  addInput(g6, dequant, g6.outputs[quant][1])

-----------------------------------------------------------------------------
(* InsertQuantDequantNodes: the traversal (lines 230-285).  The traversal  *)
(* state is the record [stack, quantInputs, quantOutputs, valueLookup,     *)
(* visited].                                                               *)

Push(stack, b) == Append(stack, b)
Top(stack) == stack[Len(stack)]
Pop(stack) == SubSeq(stack, 1, Len(stack) - 1)

RECURSIVE PushAll(_, _, _)
PushAll(stack, bs, i) ==
    IF i > Len(bs) THEN stack ELSE PushAll(Push(stack, bs[i]), bs, i + 1)

\* ClassifyInput applying the valueLookup dedup to the input-side list too
ClassifyInput_DedupInputPairs(g, st, v, n) ==
    IF ~isTensor(g, v) \/ v \in st.valueLookup
    THEN st
    ELSE IF checkIfNodeQuantizable(g, g.node[v])
         THEN [st EXCEPT !.valueLookup = @ \cup {v},
                         !.quantOutputs = Append(@, v)]
         ELSE IF checkIfNodeQuantizable(g, n)
              THEN [st EXCEPT !.valueLookup = @ \cup {v},
                              !.quantInputs = Append(@, <<v, n>>)]
              ELSE st

\* ClassifyInput testing the consumer before the producer
ClassifyInput_ConsumerFirst(g, st, v, n) ==
    IF ~isTensor(g, v)
    THEN st
    ELSE IF checkIfNodeQuantizable(g, n)
         THEN [st EXCEPT !.quantInputs = Append(@, <<v, n>>)]
         ELSE IF checkIfNodeQuantizable(g, g.node[v])
              THEN IF v \notin st.valueLookup
                   THEN [st EXCEPT !.valueLookup = @ \cup {v},
                                   !.quantOutputs = Append(@, v)]
                   ELSE st
              ELSE st

\* ClassifyInput without the tensor-type test of lines 243-246
ClassifyInput_NoTypeCheck(g, st, v, n) ==
    IF checkIfNodeQuantizable(g, g.node[v])
    THEN IF v \notin st.valueLookup
         THEN [st EXCEPT !.valueLookup = @ \cup {v},
                         !.quantOutputs = Append(@, v)]
         ELSE st
    ELSE IF checkIfNodeQuantizable(g, n)
         THEN [st EXCEPT !.quantInputs = Append(@, <<v, n>>)]
         ELSE st

\* body of the loop over n->inputs() for one input v of node n (lines 243-271)
ClassifyInput(g, st, v, n) ==
    IF ~isTensor(g, v)
    THEN st
    ELSE IF checkIfNodeQuantizable(g, g.node[v])
         THEN IF v \notin st.valueLookup
              THEN [st EXCEPT !.valueLookup = @ \cup {v},
                              !.quantOutputs = Append(@, v)]
              ELSE st
         ELSE IF checkIfNodeQuantizable(g, n)
              THEN [st EXCEPT !.quantInputs = Append(@, <<v, n>>)]
              ELSE st

RECURSIVE ClassifyInputs(_, _, _, _)
ClassifyInputs(g, st, n, i) ==
    IF i > Len(g.inputs[n])
    THEN st
    ELSE ClassifyInputs(g, ClassifyInput(g, st, g.inputs[n][i], n), n, i + 1)

\* VisitNodeQD scheduling the sub blocks of n a second time after its inputs
VisitNodeQD_PushTwice(g, st, n) ==
    LET st1 == ClassifyInputs(g,
                   [st EXCEPT !.stack = PushAll(@, g.blocks[n], 1),
                              !.visited = Append(@, n)],
                   n, 1)
    IN  [st1 EXCEPT !.stack = PushAll(@, g.blocks[n], 1)]

\* body of the loop over b->nodes() for one node n (lines 235-272)
VisitNodeQD(g, st, n) ==
    ClassifyInputs(g,
        [st EXCEPT !.stack = PushAll(@, g.blocks[n], 1),
                   !.visited = Append(@, n)],
        n, 1)

RECURSIVE VisitNodesQD(_, _, _, _)
VisitNodesQD(g, st, b, i) ==
    IF i > Len(g.nodes[b])
    THEN st
    ELSE VisitNodesQD(g, VisitNodeQD(g, st, g.nodes[b][i]), b, i + 1)

\* ClassifyBlockOutput that records nothing for a block output
ClassifyBlockOutput_Skip(g, st, v) == st

\* body of the loop over b->outputs() for one output v (lines 280-283)
ClassifyBlockOutput(g, st, v) ==
    IF checkIfNodeQuantizable(g, g.node[v]) /\ isTensor(g, v)
    THEN [st EXCEPT !.quantOutputs = Append(@, v)]
    ELSE st

RECURSIVE ClassifyBlockOutputs(_, _, _, _)
ClassifyBlockOutputs(g, st, b, i) ==
    IF i > Len(g.returns[b])
    THEN st
    ELSE ClassifyBlockOutputs(g, ClassifyBlockOutput(g, st, g.returns[b][i]), b, i + 1)

\* one iteration of the while loop, after b was popped (lines 234-284)
VisitBlockQD(g, st, b) ==
    ClassifyBlockOutputs(g, VisitNodesQD(g, st, b, 1), b, 1)

-----------------------------------------------------------------------------
(* The graphs handed to the passes: every well-formed graph of NumNodes    *)
(* nodes built from the operators below (definition before use, nodes in   *)
(* program order, prim::Loop nodes carrying one sub-block).                *)

\* graph inputs of the graphs given to InsertQuantDequantNodes
InputTypesQD == <<Tensor, NonTensor>>

\* append a node to block b; a prim::Loop node gets one (empty) sub-block
AddNode(g, k, outTypes, ins, b) ==
    LET n == NewNode(g)
        g1 == createNode(g, k, NoAttr, outTypes)
        g2 == [g1 EXCEPT !.inputs[n] = ins, !.nodes[b] = Append(@, n)]
    IN  IF k = "prim::Loop"
        THEN [g2 EXCEPT !.blocks[n] = <<Len(g.nodes) + 1>>,
                        !.nodes = Append(@, <<>>),
                        !.returns = Append(@, <<>>),
                        !.owner = Append(@, n)]
        ELSE g2

\* b and the blocks enclosing it
RECURSIVE Chain(_, _)
Chain(g, b) ==
    IF g.owner[b] = ParamNode
    THEN {b}
    ELSE {b} \cup Chain(g, owningBlock(g, g.owner[b]))

\* the blocks the next node in program order can be appended to
OpenBlocks(g) ==
    IF Len(g.kind) = 0
    THEN {TopBlock}
    ELSE Chain(g, owningBlock(g, Len(g.kind))) \cup Range(g.blocks[Len(g.kind)])

\* the values a node appended to block b can refer to: the graph inputs and
\* the outputs of the nodes that precede it in b or in an enclosing block
\* (not those of the nodes enclosing b, which are defined after b has run)
Visible(g, b) ==
    {v \in Values(g) :
        \/ g.node[v] = ParamNode
        \/ /\ \E c \in Chain(g, b) : g.node[v] \in Range(g.nodes[c])
           /\ g.node[v] \notin {g.owner[c] : c \in Chain(g, b)}}

VisibleTensors(g, b) == {v \in Visible(g, b) : isTensor(g, v)}
VisibleNonTensors(g, b) == {v \in Visible(g, b) : ~isTensor(g, v)}

\* operator and input list of a node appended to block b
NodeChoicesQD(g, b) ==
    LET T == VisibleTensors(g, b)
        S == VisibleNonTensors(g, b)
    IN  {<<"aten::relu", <<a>> >> : a \in T}
        \cup {<<"aten::conv2d", <<p[1], p[2]>> >> : p \in {q \in T \X T : q[1] <= q[2]}}
        \cup {<<"aten::conv2d", <<p[1], p[2]>> >> : p \in T \X S}
        \cup {<<"aten::sigmoid", <<a>> >> : a \in T}
        \cup {<<"aten::add", <<p[1], p[2]>> >> : p \in {q \in T \X T : q[1] < q[2]}}
        \cup {<<"prim::Loop", <<a>> >> : a \in S}

ExtendQD(g) ==
    {AddNode(g, c[1], <<Tensor>>, c[2], b) :
        <<b, c>> \in {bc \in OpenBlocks(g) \X UNION {NodeChoicesQD(g, b) : b \in OpenBlocks(g)} :
                       bc[2] \in NodeChoicesQD(g, bc[1])}}

\* the output lists a graph can declare: none, or one value produced in a
\* block listed once or twice among that block's outputs
WithReturns(g) ==
    {g} \cup UNION {
        {[g EXCEPT !.returns[b] = <<v>>], [g EXCEPT !.returns[b] = <<v, v>>]} :
            <<b, v>> \in {bv \in Blocks(g) \X Values(g) :
                           g.node[bv[2]] \in Range(g.nodes[bv[1]])}}

-----------------------------------------------------------------------------
(* Initial state and the steps of InsertQuantDequantNodes.                 *)

Idle(g) ==
    /\ graph = g
    /\ graph0 = g
    /\ entry = ""
    /\ pc = "idle"
    /\ blocks_to_visit = <<>>
    /\ quantInputs = <<>>
    /\ quantOutputs = <<>>
    /\ valueLookup = {}
    /\ values_to_observe = <<>>
    /\ observer_for_input = {}
    /\ num_activation_inputs = 0
    /\ insert_node = ParamNode
    /\ idx = 0
    /\ outcome = "none"
    /\ popped = <<>>
    /\ visited = <<>>
    /\ rewrites = <<>>
    /\ observers = <<>>

\* the pass is about to be called on g extended by i more nodes and an
\* output list
RECURSIVE IdleQD(_, _)
IdleQD(g, i) ==
    IF i = 0
    THEN \E r \in WithReturns(g) : Idle(r)
    ELSE \E h \in ExtendQD(g) : IdleQD(h, i - 1)

Init == \E g \in {EmptyGraph(InputTypesQD)} : IdleQD(g, NumNodes)

obsVars == <<values_to_observe, observer_for_input, num_activation_inputs,
             insert_node, observers>>
qdVars == <<quantInputs, quantOutputs, valueLookup, rewrites>>

\* lines 219-228: the locals are set up and the top-level block is pushed
QD_Enter ==
    /\ pc = "idle"
    /\ entry' = "InsertQuantDequantNodes"
    /\ pc' = "qd_traverse"
    /\ blocks_to_visit' = Push(blocks_to_visit, TopBlock)
    /\ UNCHANGED <<graph, graph0, qdVars, obsVars, idx, outcome, popped, visited>>

\* lines 230-285: one iteration of the while loop
QD_VisitBlock ==
    /\ pc = "qd_traverse"
    /\ blocks_to_visit # <<>>
    /\ LET b == Top(blocks_to_visit)
           st == VisitBlockQD(graph,
                    [stack |-> Pop(blocks_to_visit),
                     quantInputs |-> quantInputs,
                     quantOutputs |-> quantOutputs,
                     valueLookup |-> valueLookup,
                     visited |-> visited], b)
       IN  /\ blocks_to_visit' = st.stack
           /\ quantInputs' = st.quantInputs
           /\ quantOutputs' = st.quantOutputs
           /\ valueLookup' = st.valueLookup
           /\ visited' = st.visited
           /\ popped' = Append(popped, b)
    /\ UNCHANGED <<graph, graph0, entry, pc, rewrites, obsVars, idx, outcome>>

\* line 230, loop exit; line 288, the loop over quantOutputs starts
QD_TraversalDone ==
    /\ pc = "qd_traverse"
    /\ blocks_to_visit = <<>>
    /\ pc' = "qd_outputs"
    /\ idx' = 1
    /\ UNCHANGED <<graph, graph0, entry, blocks_to_visit, qdVars, obsVars, outcome,
                   popped, visited>>

\* lines 288-290: one iteration, addQuantDeQuantNodes(ele)
QD_RewriteOutput ==
    /\ pc = "qd_outputs"
    /\ idx <= Len(quantOutputs)
    /\ LET v == quantOutputs[idx]
       IN  /\ graph' = addQuantDeQuantNodes(graph, v)
           /\ rewrites' = Append(rewrites,
                  [side |-> "output", v |-> v, n |-> graph.node[v],
                   quant |-> QuantOf(graph), dequant |-> DequantOf(graph)])
    /\ idx' = idx + 1
    /\ UNCHANGED <<graph0, entry, pc, blocks_to_visit, quantInputs, quantOutputs,
                   valueLookup, obsVars, outcome, popped, visited>>

\* line 288, loop exit; line 293, the loop over quantInputs starts
QD_OutputsDone ==
    /\ pc = "qd_outputs"
    /\ idx > Len(quantOutputs)
    /\ pc' = "qd_inputs"
    /\ idx' = 1
    /\ UNCHANGED <<graph, graph0, entry, blocks_to_visit, qdVars, obsVars, outcome,
                   popped, visited>>

\* lines 293-295: one iteration, addQuantDeQuantNodesForInput(ele.first, ele.second)
QD_RewriteInput ==
    /\ pc = "qd_inputs"
    /\ idx <= Len(quantInputs)
    /\ LET v == quantInputs[idx][1]
           n == quantInputs[idx][2]
       IN  /\ graph' = addQuantDeQuantNodesForInput(graph, v, n)
           /\ rewrites' = Append(rewrites,
                  [side |-> "input", v |-> v, n |-> n,
                   quant |-> QuantOf(graph), dequant |-> DequantOf(graph)])
    /\ idx' = idx + 1
    /\ UNCHANGED <<graph0, entry, pc, blocks_to_visit, quantInputs, quantOutputs,
                   valueLookup, obsVars, outcome, popped, visited>>

\* line 296: InsertQuantDequantNodes returns
QD_Return ==
    /\ pc = "qd_inputs"
    /\ idx > Len(quantInputs)
    /\ pc' = "qd_done"
    /\ outcome' = "ok"
    /\ UNCHANGED <<graph, graph0, entry, blocks_to_visit, qdVars, obsVars, idx,
                   popped, visited>>

InsertQuantDequantNodes ==
    \/ QD_Enter
    \/ QD_VisitBlock
    \/ QD_TraversalDone
    \/ QD_RewriteOutput
    \/ QD_OutputsDone
    \/ QD_RewriteInput
    \/ QD_Return

-----------------------------------------------------------------------------
(* The unimplemented passes (lines 100-102, 298-304): each throws          *)
(* std::runtime_error("Pass not implemented yet!") as its only statement.  *)

\* a stub that returns normally instead of throwing
Stub_SilentNoOp(name) ==
    /\ pc = "idle"
    /\ entry' = name
    /\ pc' = "returned"
    /\ outcome' = "ok"
    /\ UNCHANGED <<graph, graph0, blocks_to_visit, qdVars, obsVars, idx, popped,
                   visited>>

Stub(name) ==
    /\ pc = "idle"
    /\ entry' = name
    /\ pc' = "threw"
    /\ outcome' = "not_implemented"
    /\ UNCHANGED <<graph, graph0, blocks_to_visit, qdVars, obsVars, idx, popped, visited>>

PropagateQuantInfo == Stub("PropagateQuantInfo")

QuantLinting == Stub("QuantLinting")

FoldQuantNodesIntoInputsOutputs == Stub("FoldQuantNodesIntoInputsOutputs")

-----------------------------------------------------------------------------
(* InsertObserverNodes (lines 104-201).                                    *)

\* the observer node handed to the pass: cloned, never inserted itself
ObserverKind == "prim::PythonOp"
ObserverOutTypes == [i \in 1..ObserverOutputs |-> Tensor]

\* Graph::createClone(original_observer_node, identity, false): a node of the
\* template's kind with copies of its outputs, in no block
createClone(g) == createNode(g, ObserverKind, NoAttr, ObserverOutTypes)

\* the node addObserverFor(g, ...) returns, and its added output
ObserverOf(g) == NewNode(g) + 1
ObservedOf(g) == NewValue(g) + 1 + ObserverOutputs

\* addObserverFor substituting the observed output for the uses of v
addObserverFor_ReplacingUses(g, v, insert_point) ==
    LET g1 == insertConstant(g, <<"string", v>>, insert_point)
        vname == NewValue(g)
        observerNode == NewNode(g1)
        g2 == createClone(g1)
        observedValue == NewValue(g2)
        g3 == setType(addOutput(g2, observerNode), observedValue, g.type[v])
        g4 == replaceAllUsesWith(g3, v, observedValue)
    IN  addInput(addInput(g4, observerNode, v), observerNode, vname)

\* lines 104-129; the returned node is ObserverOf(g), not yet in a block
addObserverFor(g, v, insert_point) ==
    LET g1 == insertConstant(g, <<"string", v>>, insert_point)
        vname == NewValue(g)
        observerNode == NewNode(g1)
        g2 == createClone(g1)
        observedValue == NewValue(g2)
        g3 == setType(addOutput(g2, observerNode), observedValue, g.type[v])
    IN  addInput(addInput(g3, observerNode, v), observerNode, vname)

\* outputsNeedToBeObserved that does not exclude constants
outputsNeedToBeObserved_All(g, n) == kindOf(g, n) # "prim::Param"

outputsNeedToBeObserved(g, n) == kindOf(g, n) # "prim::Constant"

RECURSIVE AppendAll(_, _, _)
AppendAll(s, xs, i) ==
    IF i > Len(xs) THEN s ELSE AppendAll(Append(s, xs[i]), xs, i + 1)

\* VisitNodeObs that does not skip the observers of the graph inputs
VisitNodeObs_NoMark(g, st, n, marked) ==
    IF ~outputsNeedToBeObserved(g, n)
    THEN [st EXCEPT !.visited = Append(@, n)]
    ELSE [st EXCEPT !.values_to_observe = AppendAll(@, g.outputs[n], 1),
                    !.stack = PushAll(@, g.blocks[n], 1),
                    !.visited = Append(@, n)]

\* body of the loop over b->nodes() for one node n (lines 175-190); the
\* traversal state is [stack, values_to_observe, visited]
VisitNodeObs(g, st, n, marked) ==
    IF ~outputsNeedToBeObserved(g, n) \/ n \in marked
    THEN [st EXCEPT !.visited = Append(@, n)]
    ELSE [st EXCEPT !.values_to_observe = AppendAll(@, g.outputs[n], 1),
                    !.stack = PushAll(@, g.blocks[n], 1),
                    !.visited = Append(@, n)]

RECURSIVE VisitNodesObs(_, _, _, _, _)
VisitNodesObs(g, st, b, i, marked) ==
    IF i > Len(g.nodes[b])
    THEN st
    ELSE VisitNodesObs(g, VisitNodeObs(g, st, g.nodes[b][i], marked), b, i + 1, marked)

\* the activation-input counts a caller passes
ActivationCounts(g) == 0..Len(g.ginputs) + 1

\* Obs_Enter with the assertion of line 142 evaluated only after the first
\* iteration of the loop over the activation inputs
Obs_Enter_LateAssert ==
    /\ pc = "idle"
    /\ entry' = "InsertObserverNodes"
    /\ \E num \in ActivationCounts(graph) :
          /\ num_activation_inputs' = num
          /\ IF num <= Len(graph.ginputs)
             THEN /\ pc' = "obs_inputs"
                  /\ outcome' = outcome
                  /\ insert_node' = Head(graph.nodes[TopBlock])
                  /\ idx' = 0
                  /\ UNCHANGED <<graph, observer_for_input, observers>>
             ELSE /\ pc' = "threw"
                  /\ outcome' = "precondition"
                  /\ insert_node' = Head(graph.nodes[TopBlock])
                  /\ idx' = 1
                  /\ graph' = insertBefore(
                         addObserverFor(graph, graph.ginputs[1], Head(graph.nodes[TopBlock])),
                         ObserverOf(graph), Head(graph.nodes[TopBlock]))
                  /\ observer_for_input' = observer_for_input \cup {ObserverOf(graph)}
                  /\ observers' = Append(observers,
                         [phase |-> "input", v |-> graph.ginputs[1],
                          node |-> ObserverOf(graph), observed |-> ObservedOf(graph)])
    /\ UNCHANGED <<graph0, blocks_to_visit, qdVars, values_to_observe, popped,
                   visited>>

\* lines 139-160: the assertion on num_activation_inputs, then the locals.
\* The top-level block of every graph given here holds a node, so
\* *graph->nodes().begin() is its first node.
Obs_Enter ==
    /\ pc = "idle"
    /\ entry' = "InsertObserverNodes"
    /\ \E num \in ActivationCounts(graph) :
          /\ num_activation_inputs' = num
          /\ IF num <= Len(graph.ginputs)
             THEN /\ pc' = "obs_inputs"
                  /\ outcome' = outcome
                  /\ insert_node' = Head(graph.nodes[TopBlock])
                  /\ idx' = 0
             ELSE /\ pc' = "threw"
                  /\ outcome' = "precondition"
                  /\ UNCHANGED <<insert_node, idx>>
    /\ UNCHANGED <<graph, graph0, blocks_to_visit, qdVars, values_to_observe,
                   observer_for_input, observers, popped, visited>>

\* lines 161-168: one iteration of the loop over the activation inputs
Obs_InputStep ==
    /\ pc = "obs_inputs"
    /\ idx < num_activation_inputs
    /\ LET v == graph.ginputs[idx + 1]
       IN  IF isTensor(graph, v)
           THEN /\ graph' = insertBefore(addObserverFor(graph, v, insert_node),
                                         ObserverOf(graph), insert_node)
                /\ observer_for_input' = observer_for_input \cup {ObserverOf(graph)}
                /\ observers' = Append(observers,
                       [phase |-> "input", v |-> v, node |-> ObserverOf(graph),
                        observed |-> ObservedOf(graph)])
           ELSE UNCHANGED <<graph, observer_for_input, observers>>
    /\ idx' = idx + 1
    /\ UNCHANGED <<graph0, entry, pc, blocks_to_visit, qdVars, values_to_observe,
                   num_activation_inputs, insert_node, outcome, popped, visited>>

\* line 161, loop exit; line 170
Obs_InputsDone ==
    /\ pc = "obs_inputs"
    /\ idx >= num_activation_inputs
    /\ pc' = "obs_traverse"
    /\ blocks_to_visit' = Push(blocks_to_visit, TopBlock)
    /\ UNCHANGED <<graph, graph0, entry, qdVars, obsVars, idx, outcome, popped,
                   visited>>

\* lines 171-192: one iteration of the while loop
Obs_VisitBlock ==
    /\ pc = "obs_traverse"
    /\ blocks_to_visit # <<>>
    /\ LET b == Top(blocks_to_visit)
           st == VisitNodesObs(graph,
                    [stack |-> Pop(blocks_to_visit),
                     values_to_observe |-> values_to_observe,
                     visited |-> visited], b, 1, observer_for_input)
       IN  /\ blocks_to_visit' = st.stack
           /\ values_to_observe' = st.values_to_observe
           /\ visited' = st.visited
           /\ popped' = Append(popped, b)
    /\ UNCHANGED <<graph, graph0, entry, pc, qdVars, observer_for_input,
                   num_activation_inputs, insert_node, observers, idx, outcome>>

\* line 171, loop exit; line 195, the loop over values_to_observe starts
Obs_TraversalDone ==
    /\ pc = "obs_traverse"
    /\ blocks_to_visit = <<>>
    /\ pc' = "obs_insert"
    /\ idx' = 1
    /\ UNCHANGED <<graph, graph0, entry, blocks_to_visit, qdVars, obsVars,
                   outcome, popped, visited>>

\* lines 195-200: one iteration of the loop over values_to_observe
Obs_InsertStep ==
    /\ pc = "obs_insert"
    /\ idx <= Len(values_to_observe)
    /\ LET v == values_to_observe[idx]
       IN  IF isTensor(graph, v)
           THEN /\ graph' = insertAfter(addObserverFor(graph, v, graph.node[v]),
                                        ObserverOf(graph), graph.node[v])
                /\ observers' = Append(observers,
                       [phase |-> "output", v |-> v, node |-> ObserverOf(graph),
                        observed |-> ObservedOf(graph)])
           ELSE UNCHANGED <<graph, observers>>
    /\ idx' = idx + 1
    /\ UNCHANGED <<graph0, entry, pc, blocks_to_visit, qdVars, values_to_observe,
                   observer_for_input, num_activation_inputs, insert_node,
                   outcome, popped, visited>>

\* line 201: InsertObserverNodes returns
Obs_Return ==
    /\ pc = "obs_insert"
    /\ idx > Len(values_to_observe)
    /\ pc' = "obs_done"
    /\ outcome' = "ok"
    /\ UNCHANGED <<graph, graph0, entry, blocks_to_visit, qdVars, obsVars, idx,
                   popped, visited>>

InsertObserverNodes ==
    \/ Obs_Enter
    \/ Obs_InputStep
    \/ Obs_InputsDone
    \/ Obs_VisitBlock
    \/ Obs_TraversalDone
    \/ Obs_InsertStep
    \/ Obs_Return

-----------------------------------------------------------------------------
(* The graphs handed to InsertObserverNodes: nodes of every output shape   *)
(* (tensor, non-tensor, two tensors, constant), nested in every way, each  *)
(* consuming the values defined last before it.                            *)

InputTypesObs == <<Tensor, NonTensor, Tensor>>

\* the largest element of a non-empty set of numbers
Last(S) == CHOOSE x \in S : \A y \in S : y <= x

NodeChoicesObs(g, b) ==
    LET t == Last(VisibleTensors(g, b))
        s == Last(VisibleNonTensors(g, b))
    IN  {<<"aten::relu", <<Tensor>>, <<t>> >>,
         <<"aten::conv2d", <<Tensor>>, <<t, s>> >>,
         <<"aten::size", <<NonTensor>>, <<t>> >>,
         <<"aten::max", <<Tensor, Tensor>>, <<t>> >>,
         <<"prim::Constant", <<Tensor>>, <<>> >>,
         <<"prim::Loop", <<Tensor>>, <<s>> >>}

ExtendObs(g) ==
    UNION {{AddNode(g, c[1], c[2], c[3], b) : c \in NodeChoicesObs(g, b)} :
              b \in OpenBlocks(g)}

\* every non-empty block returns the first output of its last node
ReturnLast(g) ==
    [g EXCEPT !.returns = [b \in DOMAIN @ |->
        IF g.nodes[b] = <<>>
        THEN <<>>
        ELSE <<g.outputs[g.nodes[b][Len(g.nodes[b])]][1]>>]]

\* the pass is about to be called on g extended by i more nodes, with the
\* output lists set
RECURSIVE IdleObs(_, _)
IdleObs(g, i) ==
    IF i = 0
    THEN Idle(ReturnLast(g))
    ELSE \E h \in ExtendObs(g) : IdleObs(h, i - 1)

InitObs == \E g \in {EmptyGraph(InputTypesObs)} : IdleObs(g, NumNodes)

-----------------------------------------------------------------------------
(* Specifications.                                                         *)

\* InsertQuantDequantNodes and the stubs, on the graphs of IdleQD
Next ==
    \/ InsertQuantDequantNodes
    \/ PropagateQuantInfo
    \/ QuantLinting
    \/ FoldQuantNodesIntoInputsOutputs

Spec == Init /\ [][Next]_vars

\* every entry point, on the graphs of IdleObs
NextObs ==
    \/ InsertObserverNodes
    \/ InsertQuantDequantNodes
    \/ PropagateQuantInfo
    \/ QuantLinting
    \/ FoldQuantNodesIntoInputsOutputs

SpecObs == InitObs /\ [][NextObs]_vars

\* A pass is one synchronous call (no suspension, no cancellation): once
\* entered it keeps executing.  ControlStep is a step of the running pass
\* that leaves a loop or visits a block; LoopStep is an iteration of one of
\* the for-loops over a worklist, seen through its loop index.
ControlStep ==
    \/ QD_VisitBlock
    \/ QD_TraversalDone
    \/ QD_OutputsDone
    \/ QD_Return
    \/ Obs_InputsDone
    \/ Obs_VisitBlock
    \/ Obs_TraversalDone
    \/ Obs_Return

LoopStep ==
    /\ \/ pc = "qd_outputs" /\ idx <= Len(quantOutputs)
       \/ pc = "qd_inputs" /\ idx <= Len(quantInputs)
       \/ pc = "obs_inputs" /\ idx < num_activation_inputs
       \/ pc = "obs_insert" /\ idx <= Len(values_to_observe)
    /\ idx' = idx + 1

\* every entry point, on the graphs of IdleObs, a running pass never stopping
SpecLive ==
    InitObs /\ [][NextObs]_vars /\ WF_vars(ControlStep) /\ WF_idx(LoopStep)

-----------------------------------------------------------------------------
(* Vocabulary of the properties.                                           *)

QuantizableProduced(g, v) == checkIfNodeQuantizable(g, g.node[v])

\* positions in the history of the output-side / input-side rewrites of v
OutputRewritesOf(v) ==
    {i \in DOMAIN rewrites : rewrites[i].side = "output" /\ rewrites[i].v = v}
InputRewritesOf(v) ==
    {i \in DOMAIN rewrites : rewrites[i].side = "input" /\ rewrites[i].v = v}

\* the input slots <<n, i>> of nodes satisfying P that hold v in graph g
SlotsHolding(g, v, N) ==
    {s \in UNION {{<<n, i>> : i \in DOMAIN g.inputs[n]} : n \in N} :
        g.inputs[s[1]][s[2]] = v}

QuantizableNodes(g) == {n \in Nodes(g) : checkIfNodeQuantizable(g, n)}

DequantOutput(r) == graph.outputs[r.dequant][1]

-----------------------------------------------------------------------------
(* Properties of InsertQuantDequantNodes.                                  *)

\* C1 (as claimed): in one InsertQuantDequantNodes invocation every
\* tensor-typed value whose producer is quantizable receives at most one
\* output-side quantize/dequantize pair, whatever its consumers are.
C1_AtMostOneOutputPair ==
    \A v \in Values(graph0) :
        isTensor(graph0, v) /\ QuantizableProduced(graph0, v)
            => Cardinality(OutputRewritesOf(v)) <= 1

\* C2 (as claimed): when the pass has returned, a tensor value v produced by
\* a quantizable node and consumed by at least one node has exactly one
\* quantize/dequantize pair, and every consumer reads that pair's dequantize
\* output in each input slot that held v.
C2_FanOutOnePair ==
    pc = "qd_done" =>
        \A v \in Values(graph0) :
            (/\ isTensor(graph0, v)
             /\ QuantizableProduced(graph0, v)
             /\ Consumers(graph0, v) # {})
            => /\ Cardinality(OutputRewritesOf(v)) = 1
               /\ \A i \in OutputRewritesOf(v) :
                    \A s \in SlotsHolding(graph0, v, Nodes(graph0)) :
                        graph.inputs[s[1]][s[2]] = DequantOutput(rewrites[i])

\* the (v, n, m) of the input-side precision case: a tensor v with a
\* non-quantizable producer, consumed by a quantizable n and by another,
\* non-quantizable m
PrecisionCase(v, n, m) ==
    /\ isTensor(graph0, v)
    /\ ~QuantizableProduced(graph0, v)
    /\ n \in Consumers(graph0, v) /\ checkIfNodeQuantizable(graph0, n)
    /\ m \in Consumers(graph0, v) /\ ~checkIfNodeQuantizable(graph0, m)

\* the dequantize outputs of the input-side rewrites recorded for (v, n)
InputDequantsOf(v, n) ==
    {DequantOutput(rewrites[i]) : i \in {j \in InputRewritesOf(v) : rewrites[j].n = n}}

\* C3 (as claimed): when the pass has returned, for a tensor v with a
\* non-quantizable producer consumed by a quantizable n and by non-quantizable
\* nodes, n reads a dequantize output where it read v, and every other
\* consumer has exactly the input list it had before the pass.
C3_OtherConsumersSameInputs ==
    pc = "qd_done" =>
        \A v \in Values(graph0) : \A n, m \in Nodes(graph0) :
            PrecisionCase(v, n, m)
            => /\ \A s \in SlotsHolding(graph0, v, {n}) :
                     graph.inputs[n][s[2]] \in InputDequantsOf(v, n)
               /\ graph.inputs[m] = graph0.inputs[m]

\* C3 (amended): when the pass has returned, for such v, n and m, n reads a
\* dequantize output of an input-side pair of (v, n) in every slot that held
\* v, m still reads v in every slot that held v, and an input slot of m holds
\* another value than before only if it held a tensor produced by a
\* quantizable node.
C3_InputSidePrecision ==
    pc = "qd_done" =>
        \A v \in Values(graph0) : \A n, m \in Nodes(graph0) :
            PrecisionCase(v, n, m)
            => /\ \A s \in SlotsHolding(graph0, v, {n}) :
                     graph.inputs[n][s[2]] \in InputDequantsOf(v, n)
               /\ \A s \in SlotsHolding(graph0, v, {m}) :
                     graph.inputs[m][s[2]] = v
               /\ Len(graph.inputs[m]) = Len(graph0.inputs[m])
               /\ \A i \in DOMAIN graph0.inputs[m] :
                     graph.inputs[m][i] # graph0.inputs[m][i]
                     => /\ isTensor(graph0, graph0.inputs[m][i])
                        /\ QuantizableProduced(graph0, graph0.inputs[m][i])

\* C3 witness: the pass has returned on a graph with the precision case, n
\* redirected, m reading v as before.
C3_Witness ==
    /\ pc = "qd_done"
    /\ \E v \in Values(graph0) : \E n, m \in Nodes(graph0) :
          /\ PrecisionCase(v, n, m)
          /\ v \notin Range(graph.inputs[n])
          /\ v \in Range(graph.inputs[m])
          /\ InputRewritesOf(v) # {}

\* C4 (as claimed): a value with a non-quantizable producer is the subject of
\* at most one input-side rewrite per invocation.
C4_AtMostOneInputRewrite ==
    \A v \in Values(graph0) :
        ~QuantizableProduced(graph0, v) => Cardinality(InputRewritesOf(v)) <= 1

\* C4 (amended): no rewrite is applied before the traversal has ended, the
\* k-th input-side rewrite applied is the k-th recorded pair of quantInputs,
\* and when the pass has returned the number of input-side rewrites whose
\* subject is v equals the number of input slots of quantizable nodes that
\* held v (one rewrite per recorded edge, none for a value that is not a
\* tensor or has a quantizable producer).
C4_OneRewritePerRecordedEdge ==
    /\ pc = "qd_traverse" => rewrites = <<>>
    /\ \A i \in DOMAIN rewrites :
          rewrites[i].side = "input"
          => /\ i > Len(quantOutputs)
             /\ i - Len(quantOutputs) <= Len(quantInputs)
             /\ quantInputs[i - Len(quantOutputs)] = <<rewrites[i].v, rewrites[i].n>>
    /\ pc = "qd_done" =>
          /\ Len(rewrites) = Len(quantOutputs) + Len(quantInputs)
          /\ \A v \in Values(graph0) :
                Cardinality(InputRewritesOf(v)) =
                    IF isTensor(graph0, v) /\ ~QuantizableProduced(graph0, v)
                    THEN Cardinality(SlotsHolding(graph0, v, QuantizableNodes(graph0)))
                    ELSE 0

\* C4 witness: the pass has returned and some value was the subject of two
\* input-side rewrites, for two consumers.
C4_Witness ==
    /\ pc = "qd_done"
    /\ \E v \in Values(graph0) : \E i, j \in InputRewritesOf(v) :
          rewrites[i].n # rewrites[j].n

\* the blocks that are sub-blocks of nodes
SubBlocks(g) == Blocks(g) \ {TopBlock}

Occurrences(s, x) == Cardinality({i \in DOMAIN s : s[i] = x})

\* C7 (as claimed): when InsertQuantDequantNodes has returned, the walk has
\* popped every block exactly once and visited every node exactly once, and
\* a tensor value produced by a quantizable node in a sub-block and consumed
\* in the same sub-block has exactly one output-side pair.
C7_NestedValueOnePair ==
    pc = "qd_done" =>
        /\ \A b \in Blocks(graph0) : Occurrences(popped, b) = 1
        /\ \A n \in Nodes(graph0) : Occurrences(visited, n) = 1
        /\ \A b \in SubBlocks(graph0) : \A v \in Values(graph0) :
              (/\ isTensor(graph0, v)
               /\ QuantizableProduced(graph0, v)
               /\ graph0.node[v] \in Range(graph0.nodes[b])
               /\ \E n \in Consumers(graph0, v) : n \in Range(graph0.nodes[b]))
              => Cardinality(OutputRewritesOf(v)) = 1

Stubs == {"PropagateQuantInfo", "QuantLinting", "FoldQuantNodesIntoInputsOutputs"}

\* C10: once a stub pass has been called it has ended in the 'not
\* implemented' error and the graph is identical to the graph it was given.
C10_StubsThrowAndLeaveGraph ==
    entry \in Stubs =>
        /\ pc = "threw"
        /\ outcome = "not_implemented"
        /\ graph = graph0

\* C10 witness: FoldQuantNodesIntoInputsOutputs was called on a graph with a
\* quantizable node and has thrown.
C10_Witness ==
    /\ entry = "FoldQuantNodesIntoInputsOutputs"
    /\ pc = "threw"
    /\ QuantizableNodes(graph0) # {}

-----------------------------------------------------------------------------
(* Properties of InsertObserverNodes.                                      *)

\* the observer clones in graph g
ObserverNodes(g) == {n \in Nodes(g) : g.kind[n] = ObserverKind}

\* the value an observer clone observes: its first input
ObservedBy(g, n) == g.inputs[n][1]

\* the positions of the tensor-typed inputs among the first
\* num_activation_inputs graph inputs
TensorActivationInputs ==
    {i \in 1..num_activation_inputs : isTensor(graph0, graph0.ginputs[i])}

\* the tensor-typed outputs of the nodes of g other than prim::Constant nodes
ObservableOutputs(g) ==
    {v \in Values(g) : /\ g.node[v] # ParamNode
                       /\ kindOf(g, g.node[v]) # "prim::Constant"
                       /\ isTensor(g, v)}

LastOutput(g, n) == g.outputs[n][Len(g.outputs[n])]

\* C5: when InsertObserverNodes has returned, the graph holds exactly k + j
\* observer clones (k tensor-typed activation inputs, j tensor-typed outputs
\* of non-constant nodes of the given graph, at every depth), each placed in a
\* block, each with exactly one output more than the template, of the type of
\* the value it observes.
C5_ObserverCoverage ==
    pc = "obs_done" =>
        /\ Cardinality(ObserverNodes(graph)) =
              Cardinality(TensorActivationInputs) + Cardinality(ObservableOutputs(graph0))
        /\ Len(observers) = Cardinality(ObserverNodes(graph))
        /\ \A n \in ObserverNodes(graph) :
              /\ inSomeBlock(graph, n)
              /\ Len(graph.outputs[n]) = ObserverOutputs + 1
              /\ graph.type[LastOutput(graph, n)] = graph.type[ObservedBy(graph, n)]
              /\ graph.node[LastOutput(graph, n)] = n

\* C5 witness: the pass has returned with an observed activation input, two
\* observed node outputs one of which is in a sub-block, and a constant in
\* the given graph.
C5_Witness ==
    /\ pc = "obs_done"
    /\ TensorActivationInputs # {}
    /\ \E p, q \in ObservableOutputs(graph0) :
          /\ graph0.node[p] # graph0.node[q]
          /\ graph0.node[p] \notin Range(graph0.nodes[TopBlock])
    /\ \E n \in Nodes(graph0) : graph0.kind[n] = "prim::Constant"

\* C6: in every state of every pass, the recorded rewrite candidates are
\* tensor-typed, and every quantize node and every observer clone of the
\* graph wraps or observes a tensor-typed value.
C6_NonTensorExclusion ==
    /\ \A i \in DOMAIN quantOutputs : isTensor(graph, quantOutputs[i])
    /\ \A i \in DOMAIN quantInputs : isTensor(graph, quantInputs[i][1])
    /\ \A i \in DOMAIN rewrites : isTensor(graph, rewrites[i].v)
    /\ \A i \in DOMAIN observers : isTensor(graph, observers[i].v)
    /\ \A n \in Nodes(graph) :
          graph.kind[n] \in {"aten::quantize_linear", ObserverKind}
          => isTensor(graph, graph.inputs[n][1])

\* C6 witness: InsertQuantDequantNodes has returned, having inserted a pair,
\* on a graph in which a quantizable node consumes a non-tensor value.
C6_Witness ==
    /\ pc = "qd_done"
    /\ rewrites # <<>>
    /\ \E n \in QuantizableNodes(graph0) : \E v \in Range(graph0.inputs[n]) :
          ~isTensor(graph0, v)

\* C8: when InsertObserverNodes has returned, each tensor-typed input among
\* the first num_activation_inputs graph inputs is observed by exactly one
\* observer and no other graph input by any; these observers are the marked
\* ones, each lies in the top-level block before every node the block held
\* at the start; and no observer observes an output of a marked observer.
C8_InputObservers ==
    pc = "obs_done" =>
        /\ \A i \in DOMAIN graph0.ginputs :
              Cardinality({n \in ObserverNodes(graph) :
                              ObservedBy(graph, n) = graph0.ginputs[i]})
                 = IF i \in TensorActivationInputs THEN 1 ELSE 0
        /\ observer_for_input =
              {n \in ObserverNodes(graph) : graph.node[ObservedBy(graph, n)] = ParamNode}
        /\ \A n \in observer_for_input :
              /\ n \in Range(graph.nodes[TopBlock])
              /\ \A m \in Range(graph0.nodes[TopBlock]) :
                    IndexOf(graph.nodes[TopBlock], n) < IndexOf(graph.nodes[TopBlock], m)
        /\ \A n \in ObserverNodes(graph) :
              graph.node[ObservedBy(graph, n)] \notin observer_for_input

\* C8 witness: the pass has returned with two input observers in the graph.
C8_Witness ==
    /\ pc = "obs_done"
    /\ Cardinality(observer_for_input) = 2

C11_PreconditionBeforeMutation ==
    (entry = "InsertObserverNodes" /\ num_activation_inputs > Len(graph0.ginputs))
    => /\ pc = "threw"
       /\ outcome = "precondition"
       /\ graph = graph0
       /\ observers = <<>>
       /\ observer_for_input = {}
       /\ values_to_observe = <<>>
       /\ popped = <<>>

\* C11 witness: InsertObserverNodes was called with one activation input more
\* than the graph has, on a graph whose first input is a tensor, and has
\* failed.
C11_Witness ==
    /\ entry = "InsertObserverNodes"
    /\ num_activation_inputs = Len(graph0.ginputs) + 1
    /\ isTensor(graph0, graph0.ginputs[1])
    /\ outcome = "precondition"

-----------------------------------------------------------------------------
(* Wiring, placement and classification in InsertQuantDequantNodes.        *)

\* the last pair inserted
LastRewrite(rs) == rs[Len(rs)]

\* v is the output of a prim::Constant node of g carrying payload a
IsConstant(g, v, a) ==
    /\ g.node[v] # ParamNode
    /\ g.kind[g.node[v]] = "prim::Constant"
    /\ g.attr[g.node[v]] = a

\* v is held by some block's output list
IsBlockOutput(g, v) == \E b \in Blocks(g) : v \in Range(g.returns[b])

\* C12: every step that applies addQuantDeQuantNodes(v) leaves the quantize
\* node with the inputs [v, constant 1.0, constant 0], the dequantize node
\* with the quantize output as its only input, every node input slot and
\* block output slot that held v holding the dequantize output, every other
\* slot as it was, and the quantize node as the only consumer of v.
C12_OutputWiring ==
    [][(Len(rewrites') = Len(rewrites) + 1 /\ LastRewrite(rewrites').side = "output")
       => LET r == LastRewrite(rewrites')
              q == r.quant
              d == r.dequant
              dout == graph'.outputs[d][1]
          IN  /\ graph'.kind[q] = "aten::quantize_linear"
              /\ graph'.kind[d] = "aten::dequantize"
              /\ Len(graph'.inputs[q]) = 3
              /\ graph'.inputs[q][1] = r.v
              /\ IsConstant(graph', graph'.inputs[q][2], <<"float", 1>>)
              /\ IsConstant(graph', graph'.inputs[q][3], <<"int", 0>>)
              /\ graph'.inputs[d] = <<graph'.outputs[q][1]>>
              /\ \A n \in Nodes(graph) :
                    graph'.inputs[n] = Subst(graph.inputs[n], r.v, dout)
              /\ \A b \in Blocks(graph) :
                    graph'.returns[b] = Subst(graph.returns[b], r.v, dout)
              /\ Consumers(graph', r.v) = {q}
              /\ ~IsBlockOutput(graph', r.v)
      ]_vars

\* C12 witness: an output-side rewrite has been applied to a value that a
\* node consumed and a block returned; its quantize node is the only consumer
\* of the value.
C12_Witness ==
    /\ rewrites # <<>>
    /\ LastRewrite(rewrites).side = "output"
    /\ Consumers(graph0, LastRewrite(rewrites).v) # {}
    /\ IsBlockOutput(graph0, LastRewrite(rewrites).v)
    /\ Consumers(graph, LastRewrite(rewrites).v) = {LastRewrite(rewrites).quant}

\* the node at position i of the block of node n, 0 when there is none
NodeAt(g, n, i) ==
    LET blk == g.nodes[owningBlock(g, n)]
    IN  IF i \in DOMAIN blk THEN blk[i] ELSE 0

\* position of node n in its block
PositionOf(g, n) == IndexOf(g.nodes[owningBlock(g, n)], n)

\* the nodes a rewrite inserted: the two parameter constants, quantize and
\* dequantize
GroupOf(g, r) ==
    {g.node[g.inputs[r.quant][2]], g.node[g.inputs[r.quant][3]], r.quant, r.dequant}

\* C13 (as claimed): when the pass has returned, every inserted pair lies in
\* the block of its anchor; after an output-side rewrite the node right after
\* v's producer is the quantize node and the next one the dequantize node;
\* after an input-side rewrite (v, n) the node right before n is the
\* dequantize node and the one before that the quantize node.
C13_PairsAdjacentToAnchor ==
    pc = "qd_done" =>
        \A i \in DOMAIN rewrites :
            LET r == rewrites[i]
                p == PositionOf(graph, r.n)
            IN  IF r.side = "output"
                THEN /\ NodeAt(graph, r.n, p + 1) = r.quant
                     /\ NodeAt(graph, r.n, p + 2) = r.dequant
                ELSE /\ NodeAt(graph, r.n, p - 1) = r.dequant
                     /\ NodeAt(graph, r.n, p - 2) = r.quant

\* C13 (amended): in every state, the scale constant, the zero-point
\* constant, the quantize node and the dequantize node of every inserted pair
\* are four consecutive nodes, in this order, of the block of the pair's
\* anchor; the group of an output-side pair lies after v's producer and the
\* group of an input-side pair (v, n) before n, and the nodes between a group
\* and its anchor all belong to pairs inserted later on the same side of the
\* same anchor.
C13_GroupsAroundAnchor ==
    \A i \in DOMAIN rewrites :
        LET r == rewrites[i]
            p == PositionOf(graph, r.n)
            q == PositionOf(graph, r.quant)
            Later == UNION {GroupOf(graph, rewrites[j]) :
                              j \in {k \in DOMAIN rewrites :
                                       /\ k > i
                                       /\ rewrites[k].side = r.side
                                       /\ rewrites[k].n = r.n}}
        IN  /\ owningBlock(graph, r.quant) = owningBlock(graph, r.n)
            /\ owningBlock(graph, r.n) = owningBlock(graph0, r.n)
            /\ NodeAt(graph, r.n, q - 2) = graph.node[graph.inputs[r.quant][2]]
            /\ NodeAt(graph, r.n, q - 1) = graph.node[graph.inputs[r.quant][3]]
            /\ NodeAt(graph, r.n, q + 1) = r.dequant
            /\ IF r.side = "output"
               THEN /\ p < q - 2
                    /\ \A k \in (p + 1)..(q - 3) : NodeAt(graph, r.n, k) \in Later
               ELSE /\ q + 1 < p
                    /\ \A k \in (q + 2)..(p - 1) : NodeAt(graph, r.n, k) \in Later

\* C13 witness: the pass has returned having inserted two input-side pairs
\* before one anchor and two output-side pairs after one anchor.
C13_Witness ==
    /\ pc = "qd_done"
    /\ \E i, j \in DOMAIN rewrites :
          /\ i < j
          /\ rewrites[i].side = "input" /\ rewrites[j].side = "input"
          /\ rewrites[i].n = rewrites[j].n
    /\ \E i, j \in DOMAIN rewrites :
          /\ i < j
          /\ rewrites[i].side = "output" /\ rewrites[j].side = "output"
          /\ rewrites[i].n = rewrites[j].n

\* the traversal of InsertQuantDequantNodes has ended
TraversalEnded == pc \in {"qd_outputs", "qd_inputs", "qd_done"}

\* the input edges <<v, n>> of the given graph with n quantizable, v a tensor
\* and v's producer not quantizable
InputSideEdges ==
    {e \in Values(graph0) \X QuantizableNodes(graph0) :
        /\ e[1] \in Range(graph0.inputs[e[2]])
        /\ isTensor(graph0, e[1])
        /\ ~QuantizableProduced(graph0, e[1])}

\* the input edges <<v, n>> of the given graph with n quantizable, v a tensor
\* and v's producer quantizable
InnerEdges ==
    {e \in Values(graph0) \X QuantizableNodes(graph0) :
        /\ e[1] \in Range(graph0.inputs[e[2]])
        /\ isTensor(graph0, e[1])
        /\ QuantizableProduced(graph0, e[1])}

\* C14: when the traversal has ended every node has been visited, the pairs
\* of quantInputs are exactly the edges (v, n) with n quantizable, v a
\* tensor-typed input of n and v's producer not quantizable; every value of
\* quantOutputs is tensor-typed with a quantizable producer; no value is in
\* both lists; and an edge between two quantizable nodes is recorded in
\* quantOutputs only and never the subject of an input-side rewrite.
C14_EdgeClassification ==
    TraversalEnded =>
        /\ Range(visited) = Nodes(graph0)
        /\ Range(quantInputs) = InputSideEdges
        /\ \A v \in Range(quantOutputs) :
              isTensor(graph0, v) /\ QuantizableProduced(graph0, v)
        /\ {e[1] : e \in Range(quantInputs)} \cap Range(quantOutputs) = {}
        /\ \A e \in InnerEdges :
              /\ e[1] \in Range(quantOutputs)
              /\ e \notin Range(quantInputs)
              /\ InputRewritesOf(e[1]) = {}
              /\ pc = "qd_done" => OutputRewritesOf(e[1]) # {}

\* C14 witness: the pass has returned on a graph with an edge between two
\* quantizable nodes, an edge from a non-quantizable producer to a
\* quantizable node, and a tensor edge between two non-quantizable nodes.
C14_Witness ==
    /\ pc = "qd_done"
    /\ InnerEdges # {}
    /\ InputSideEdges # {}
    /\ \E n \in Nodes(graph0) \ QuantizableNodes(graph0) :
          \E v \in Range(graph0.inputs[n]) :
              isTensor(graph0, v) /\ ~QuantizableProduced(graph0, v)

-----------------------------------------------------------------------------
(* Termination.                                                            *)

\* every block the stack has received so far, in order of arrival or not
Received == popped \o blocks_to_visit

\* the stack has only received blocks of the given graph, each at most once;
\* InsertQuantDequantNodes changes the graph only when the stack is empty and
\* its loop over b->nodes() runs only for nodes of the given graph; the nodes
\* InsertObserverNodes created that its loop over b->nodes() reaches are
\* name constants and marked input observers, which it skips, so that only
\* outputs of nodes of the given graph are collected; and a pass that has
\* returned has emptied the stack and consumed its worklists
WorklistsBounded ==
    /\ Range(Received) \subseteq Blocks(graph0)
    /\ \A b \in Blocks(graph0) : Occurrences(Received, b) <= 1
    /\ (entry = "InsertQuantDequantNodes" /\ blocks_to_visit # <<>>) => graph = graph0
    /\ entry = "InsertQuantDequantNodes" => Range(visited) \subseteq Nodes(graph0)
    /\ entry = "InsertObserverNodes" =>
          /\ \A n \in Range(visited) \ Nodes(graph0) :
                n \in observer_for_input \/ graph.kind[n] = "prim::Constant"
          /\ Range(values_to_observe) \subseteq Values(graph0)
          /\ pc = "obs_insert" => blocks_to_visit = <<>>
    /\ pc = "qd_done" =>
          /\ blocks_to_visit = <<>>
          /\ Len(rewrites) = Len(quantOutputs) + Len(quantInputs)
    /\ pc = "obs_done" =>
          /\ blocks_to_visit = <<>>
          /\ idx = Len(values_to_observe) + 1

-----------------------------------------------------------------------------
(* Frame of the passes.                                                    *)

\* the nodes of sequence s that are nodes of the given graph, in order
Original(s) == SelectSeq(s, LAMBDA n : n \in Nodes(graph0))

\* C16: in every state of InsertQuantDequantNodes and InsertObserverNodes,
\* every node of the given graph is a node of the graph with the same
\* operator, outputs and sub-blocks, in the same block; every value of the
\* given graph has the same producer and type; every block holds the nodes
\* it held in the same relative order; the graph has the same blocks and
\* inputs; and an input slot of a pre-existing node or an output slot of a
\* block differs from what it was only by holding the output of a
\* dequantize node the pass added.
C16_NoDeletion ==
    entry \in {"InsertQuantDequantNodes", "InsertObserverNodes"} =>
        /\ Nodes(graph0) \subseteq Nodes(graph)
        /\ Values(graph0) \subseteq Values(graph)
        /\ \A n \in Nodes(graph0) :
              /\ graph.kind[n] = graph0.kind[n]
              /\ graph.attr[n] = graph0.attr[n]
              /\ graph.outputs[n] = graph0.outputs[n]
              /\ graph.blocks[n] = graph0.blocks[n]
              /\ inSomeBlock(graph, n)
              /\ owningBlock(graph, n) = owningBlock(graph0, n)
              /\ Len(graph.inputs[n]) = Len(graph0.inputs[n])
              /\ \A i \in DOMAIN graph0.inputs[n] :
                    \/ graph.inputs[n][i] = graph0.inputs[n][i]
                    \/ /\ graph.inputs[n][i] \notin Values(graph0)
                       /\ kindOf(graph, graph.node[graph.inputs[n][i]]) = "aten::dequantize"
        /\ \A v \in Values(graph0) :
              /\ graph.node[v] = graph0.node[v]
              /\ graph.type[v] = graph0.type[v]
        /\ Blocks(graph) = Blocks(graph0)
        /\ graph.owner = graph0.owner
        /\ graph.ginputs = graph0.ginputs
        /\ \A b \in Blocks(graph0) :
              /\ Original(graph.nodes[b]) = graph0.nodes[b]
              /\ \A n \in Range(graph.nodes[b]) : Occurrences(graph.nodes[b], n) = 1
              /\ Len(graph.returns[b]) = Len(graph0.returns[b])
              /\ \A i \in DOMAIN graph0.returns[b] :
                    \/ graph.returns[b][i] = graph0.returns[b][i]
                    \/ /\ graph.returns[b][i] \notin Values(graph0)
                       /\ kindOf(graph, graph.node[graph.returns[b][i]]) = "aten::dequantize"

\* C16 witness: InsertQuantDequantNodes has returned, having inserted pairs
\* on both sides, redirected an input of a pre-existing node and the output
\* of a block, on a graph with two nodes in one block.
C16_Witness ==
    /\ pc = "qd_done"
    /\ \E i, j \in DOMAIN rewrites :
          rewrites[i].side = "output" /\ rewrites[j].side = "input"
    /\ \E n \in Nodes(graph0) : graph.inputs[n] # graph0.inputs[n]
    /\ \E b \in Blocks(graph0) :
          /\ graph.returns[b] # graph0.returns[b]
          /\ Len(graph0.nodes[b]) >= 2
          /\ Len(graph.nodes[b]) > Len(graph0.nodes[b])

-----------------------------------------------------------------------------
(* Definition before use.                                                  *)

\* the node of block c that is n or encloses n (c is in the chain of n's block)
RECURSIVE AncestorIn(_, _, _)
AncestorIn(g, n, c) ==
    IF owningBlock(g, n) = c
    THEN n
    ELSE AncestorIn(g, g.owner[owningBlock(g, n)], c)

\* v is available to node n: a graph input, or produced by a node that comes
\* before n in n's block or before the node enclosing n in an enclosing block
AvailableTo(g, v, n) ==
    \/ g.node[v] = ParamNode
    \/ \E c \in Chain(g, owningBlock(g, n)) :
          /\ g.node[v] \in Range(g.nodes[c])
          /\ IndexOf(g.nodes[c], g.node[v]) < IndexOf(g.nodes[c], AncestorIn(g, n, c))

\* v is available at the end of block b: a graph input, produced in b, or
\* available to the node that owns b
AvailableAtEnd(g, v, b) ==
    \/ g.node[v] = ParamNode
    \/ g.node[v] \in Range(g.nodes[b])
    \/ g.owner[b] # ParamNode /\ AvailableTo(g, v, g.owner[b])

DefinitionBeforeUse(g) ==
    /\ \A n \in Nodes(g) :
          /\ inSomeBlock(g, n)
          /\ \A v \in Range(g.inputs[n]) : AvailableTo(g, v, n)
    /\ \A b \in Blocks(g) : \A v \in Range(g.returns[b]) : AvailableAtEnd(g, v, b)

\* the nodes of block b and of the blocks nested in it, in program order
RECURSIVE Flatten(_, _)
RECURSIVE FlattenNodes(_, _, _)
RECURSIVE FlattenBlocks(_, _, _)
Flatten(g, b) == FlattenNodes(g, g.nodes[b], 1)
FlattenNodes(g, ns, i) ==
    IF i > Len(ns)
    THEN <<>>
    ELSE <<ns[i]>> \o FlattenBlocks(g, g.blocks[ns[i]], 1) \o FlattenNodes(g, ns, i + 1)
FlattenBlocks(g, bs, i) ==
    IF i > Len(bs)
    THEN <<>>
    ELSE Flatten(g, bs[i]) \o FlattenBlocks(g, bs, i + 1)

\* the dataflow graph has no cycle: in program order every node comes after
\* the producers of its inputs
Acyclic(g) ==
    LET order == Flatten(g, TopBlock)
    IN  /\ \A n \in Nodes(g) : Occurrences(order, n) = 1
        /\ \A n \in Nodes(g) : \A v \in Range(g.inputs[n]) :
              \/ g.node[v] = ParamNode
              \/ IndexOf(order, g.node[v]) < IndexOf(order, n)

\* C17: the graph given to InsertQuantDequantNodes defines every value
\* before its uses, and so does the graph after every rewrite step and when
\* the pass has returned: every input of every node, the inserted quantize,
\* dequantize and constant nodes included, and every block output is a graph
\* input or produced earlier in the same or an enclosing block, and the
\* dataflow graph is acyclic.
C17_DefinitionBeforeUse ==
    entry = "InsertQuantDequantNodes" =>
        /\ DefinitionBeforeUse(graph0)
        /\ DefinitionBeforeUse(graph)
        /\ Acyclic(graph)

\* C17 witness: the pass has returned having inserted an input-side pair in
\* a sub-block for a value of an enclosing block and an output-side pair for
\* a value that a block returns.
C17_Witness ==
    /\ pc = "qd_done"
    /\ \E i \in DOMAIN rewrites :
          /\ rewrites[i].side = "input"
          /\ owningBlock(graph0, rewrites[i].n) # TopBlock
          /\ graph0.node[rewrites[i].v] # ParamNode
          /\ owningBlock(graph0, graph0.node[rewrites[i].v]) # owningBlock(graph0, rewrites[i].n)
    /\ \E i \in DOMAIN rewrites :
          /\ rewrites[i].side = "output"
          /\ IsBlockOutput(graph0, rewrites[i].v)

-----------------------------------------------------------------------------
(* The graph InsertQuantDequantNodes leaves.                               *)

\* C18 (as claimed): every input-side rewrite (v, n) is applied while n has
\* v among its inputs, and when the pass has returned the output of every
\* dequantize node it inserted is held by a node input or a block output.
C18_NoDeadPairs ==
    /\ (pc = "qd_inputs" /\ idx <= Len(quantInputs))
          => quantInputs[idx][1] \in Range(graph.inputs[quantInputs[idx][2]])
    /\ pc = "qd_done" =>
          \A i \in DOMAIN rewrites : hasUses(graph, DequantOutput(rewrites[i]))

\* the input slots <<n, i>> of g that hold v
SlotsOf(g, v) == SlotsHolding(g, v, Nodes(g))

\* C19: when InsertQuantDequantNodes has returned, every tensor-typed input
\* slot of every quantizable node of the given graph holds the output of a
\* dequantize node the pass inserted, and every tensor-typed output of such
\* a node that a node consumed or a block returned is held by exactly one
\* input slot, the first of a quantize node the pass inserted, and by no
\* block output.
C19_BoundaryPostcondition ==
    pc = "qd_done" =>
        \A n \in QuantizableNodes(graph0) :
            /\ \A i \in DOMAIN graph0.inputs[n] :
                  isTensor(graph0, graph0.inputs[n][i])
                  => /\ graph.inputs[n][i] \notin Values(graph0)
                     /\ kindOf(graph, graph.node[graph.inputs[n][i]]) = "aten::dequantize"
            /\ \A v \in Range(graph0.outputs[n]) :
                  (isTensor(graph0, v) /\ hasUses(graph0, v))
                  => /\ Cardinality(SlotsOf(graph, v)) = 1
                     /\ \A s \in SlotsOf(graph, v) :
                           /\ s[1] \notin Nodes(graph0)
                           /\ graph.kind[s[1]] = "aten::quantize_linear"
                           /\ s[2] = 1
                     /\ ~IsBlockOutput(graph, v)

\* C19 witness: the pass has returned on a graph in which a quantizable node
\* reads a graph input and the output of a quantizable node, and the output
\* of a quantizable node is returned by a block without being consumed.
C19_Witness ==
    /\ pc = "qd_done"
    /\ \E n \in QuantizableNodes(graph0) : \E v, w \in Range(graph0.inputs[n]) :
          /\ isTensor(graph0, v) /\ graph0.node[v] = ParamNode
          /\ isTensor(graph0, w) /\ QuantizableProduced(graph0, w)
    /\ \E v \in Values(graph0) :
          /\ QuantizableProduced(graph0, v)
          /\ IsBlockOutput(graph0, v)
          /\ Consumers(graph0, v) = {}

=============================================================================
